---- MODULE Spec2Model ----
(***************************************************************************)
(* The unified authentication / session core of the train-system frontend: *)
(*   - AuthProvider (hooks/useAuth): user, isLoading, skipInitialization,  *)
(*     the mount effect initializeAuth, login, register, logout, hasRole;  *)
(*   - the two axios clients api / adminApi with their request and         *)
(*     response interceptors (services/api);                               *)
(*   - AdminProtectedRoute (components/common/AdminProtectedRoute);        *)
(*   - the browser: localStorage key authToken, window.location.pathname,  *)
(*     a pending window.location.href assignment, and the requests in      *)
(*     flight on the network.                                              *)
(*                                                                         *)
(* The consumers of the context (pages, layouts) are the environment: they *)
(* may call login, register and logout in any state after the provider has *)
(* mounted.  The backend is the environment too: every request in flight   *)
(* settles with any outcome.                                               *)
(*                                                                         *)
(* One JavaScript task (an event handler, or the delivery of a response    *)
(* with the promise continuations it releases) is one action.  A state     *)
(* update of a click handler is committed, and the passive effects it      *)
(* triggers are flushed, before the next task runs, so logout and the      *)
(* re-run of the [skipInitialization] effect it causes form one action.    *)
(***************************************************************************)
EXTENDS Integers, Sequences, FiniteSets

\* At most MaxInFlight login / register / data requests are on the network
\* at the same time (the startup GET /auth/me is not counted).
MaxInFlight == 2

(***************************************************************************)
(* Values                                                                  *)
(***************************************************************************)

\* JavaScript null / undefined for the token, a thrown message, a role.
NULL == "null"

\* user === null
Null == [null |-> TRUE]

\* Bearer tokens the backend hands out.
Tokens == {"T1", "T2"}

RoleNames == {"admin", "super_admin"}

\* UnifiedUser: the fields the core reads (id, is_admin, roles).
Users ==
  { [id |-> 1, is_admin |-> FALSE, roles |-> <<>>],
    [id |-> 2, is_admin |-> FALSE, roles |-> <<"admin", "super_admin">>],
    [id |-> 3, is_admin |-> TRUE,  roles |-> <<>>],
    [id |-> 4, is_admin |-> TRUE,  roles |-> <<"admin">>] }

\* Array.prototype.includes on a roles list.
Includes(roles, role) == \E i \in DOMAIN roles : roles[i] = role

\* Pathnames of the route table, as lists of segments: "/" is <<>>,
\* "/admin/login" is <<"admin", "login">>.  "/admin/dashboard" stands for
\* every page below /admin/*.
Home           == <<>>
LoginPath      == <<"login">>
RegisterPath   == <<"register">>
DashboardPath  == <<"dashboard">>
AdminLoginPath == <<"admin", "login">>
AdminPagePath  == <<"admin", "dashboard">>

Routes ==
  {Home, LoginPath, RegisterPath, DashboardPath, AdminLoginPath, AdminPagePath}

\* No window.location.href assignment is pending.
NoHref == <<"-">>

\* window.location.pathname.includes('/login'): no segment of the route
\* table other than "login" starts with "login".
PathnameIncludesLogin(path) == \E i \in DOMAIN path : path[i] = "login"

\* The route /admin/* with element AdminProtectedRoute matches every
\* pathname below /admin except /admin/login, which has its own route.
IsAdminRoute(path) ==
  /\ Len(path) >= 1
  /\ path[1] = "admin"
  /\ path # AdminLoginPath

(***************************************************************************)
(* State                                                                   *)
(***************************************************************************)
VARIABLES
  authToken,           \* localStorage 'authToken', NULL when the key is absent
  user,                \* useState<UnifiedUser | null>
  isLoading,           \* useState(true)
  skipInitialization,  \* useState(false)
  pathname,            \* window.location.pathname
  href,                \* pending window.location.href assignment, or NoHref
  inflight,            \* requests on the network: kind -> how many
  effectPending,       \* the provider has mounted, its effect has not run yet
  last                 \* the last task: what it was, what it returned or threw

vars ==
  <<authToken, user, isLoading, skipInitialization, pathname, href, inflight,
    effectPending, last>>

\* The calls the application makes: the three calls of authService (all
\* through api), and a data call of some page through api or adminApi.
Kinds == {"login", "register", "me", "data", "adminData"}

\* The axios instance a call goes through.
ClientOf(kind) == IF kind = "adminData" THEN "adminApi" ELSE "api"

\* Requests counted against MaxInFlight.
CountedKinds == Kinds \ {"me"}

RECURSIVE SumOver(_, _)
SumOver(f, S) ==
  IF S = {} THEN 0
  ELSE LET k == CHOOSE k \in S : TRUE IN f[k] + SumOver(f, S \ {k})

InFlightCount == SumOver(inflight, CountedKinds)

\* No Authorization header on a request.
NoHeader == <<>>

\* An observation of the last task.
\*   op      what ran
\*   kind    the call it belongs to
\*   status  HTTP status of the response (0: no response was received)
\*   stored  localStorage 'authToken' when the response arrived
\*   header  Authorization header the request interceptor attached
\*   token   access_token of a successful login / register response
\*   ruser   identity carried by a successful response
\*   thrown  message of the Error thrown to the caller, NULL when none
\*   from    location handed over as navigation state by a guard redirect
\*   ran     the task executed the body of initializeAuth behind the latch test
\*   role    argument of a hasRole call
\*   result  what the hasRole call returned
NoEvent ==
  [op |-> "mount", kind |-> NULL, status |-> 0, stored |-> NULL,
   header |-> NoHeader, token |-> NULL, ruser |-> Null, thrown |-> NULL,
   from |-> NoHref, ran |-> FALSE, role |-> NULL, result |-> FALSE]


(***************************************************************************)
(* services/api: interceptors and handleApiError                           *)
(***************************************************************************)

\* A variant of api's request interceptor that sets the header without
\* testing the token.
ApiRequestInterceptor_AlwaysHeader(token) == <<"Bearer", token>>

\* Request interceptor of api: config.headers.Authorization = `Bearer ${token}`
\* when localStorage holds a token; the config is returned in both cases.
ApiRequestInterceptor(token) ==
  IF token # NULL THEN <<"Bearer", token>> ELSE NoHeader

\* Request interceptor of adminApi.
AdminApiRequestInterceptor(token) ==
  IF token # NULL THEN <<"Bearer", token>> ELSE NoHeader

RequestInterceptor(client, token) ==
  IF client = "adminApi" THEN AdminApiRequestInterceptor(token)
  ELSE ApiRequestInterceptor(token)

\* What a request can settle with.  An error carries the HTTP status of
\* error.response (0: no response), error.response.data.detail, whether
\* error.request is set, and error.message.
HttpErrors ==
  { [status |-> 400, detail |-> "Invalid credentials", request |-> TRUE,
     message |-> "Request failed"],
    [status |-> 400, detail |-> NULL, request |-> TRUE,
     message |-> "Request failed"],
    [status |-> 401, detail |-> "Invalid credentials", request |-> TRUE,
     message |-> "Request failed"],
    [status |-> 500, detail |-> NULL, request |-> TRUE,
     message |-> "Request failed"] }

\* No response: connection failure or the 30 s timeout (error.request set),
\* or a failure while setting the request up (neither set).
TransportErrors ==
  { [status |-> 0, detail |-> NULL, request |-> TRUE,
     message |-> "Network Error"],
    [status |-> 0, detail |-> NULL, request |-> FALSE, message |-> NULL] }

Errors == HttpErrors \cup TransportErrors

\* A variant of api's handler without the pathname test.
ApiResponseError_AlwaysNavigate(error, token, path, pending) ==
  IF error.status = 401
  THEN [authToken |-> NULL, href |-> LoginPath]
  ELSE [authToken |-> token, href |-> pending]

\* Error handler of api's response interceptor: the effect on localStorage
\* and on window.location.href; the error is re-raised afterwards.
ApiResponseError(error, token, path, pending) ==
  IF error.status = 401
  THEN [authToken |-> NULL,
        href |-> IF ~PathnameIncludesLogin(path) THEN LoginPath ELSE pending]
  ELSE [authToken |-> token, href |-> pending]

\* A variant of the adminApi handler that tests error.response instead of
\* its status.
AdminApiResponseError_AnyStatus(error, token, path, pending) ==
  IF error.status # 0
  THEN [authToken |-> NULL,
        href |-> IF ~PathnameIncludesLogin(path) THEN AdminLoginPath
                 ELSE pending]
  ELSE [authToken |-> token, href |-> pending]

\* A variant of the adminApi handler that removes the token inside the
\* pathname test.
AdminApiResponseError_InsideTest(error, token, path, pending) ==
  IF error.status = 401 /\ ~PathnameIncludesLogin(path)
  THEN [authToken |-> NULL, href |-> AdminLoginPath]
  ELSE [authToken |-> token, href |-> pending]

\* Error handler of adminApi's response interceptor.
AdminApiResponseError(error, token, path, pending) ==
  IF error.status = 401
  THEN [authToken |-> NULL,
        href |-> IF ~PathnameIncludesLogin(path) THEN AdminLoginPath
                 ELSE pending]
  ELSE [authToken |-> token, href |-> pending]

ResponseError(client, error, token, path, pending) ==
  IF client = "adminApi"
  THEN AdminApiResponseError(error, token, path, pending)
  ELSE ApiResponseError(error, token, path, pending)

\* handleApiError(error).detail
handleApiError(error) ==
  IF error.status # 0
  THEN IF error.detail # NULL THEN error.detail ELSE "An error occurred"
  ELSE IF error.request
  THEN "Network error - please check your connection"
  ELSE IF error.message # NULL THEN error.message
  ELSE "An unexpected error occurred"

(***************************************************************************)
(* components/common/AdminProtectedRoute                                   *)
(***************************************************************************)

\* requiredRole as the call site passes it; NULL when the prop is omitted.
RequiredRoles == RoleNames \cup {NULL}

\* A variant of the guard that accepts the role "admin" in place of is_admin.
AdminProtectedRoute_RoleAsAdmin(u, loading, requiredRole, location) ==
  IF loading
  THEN [view |-> "loading", to |-> NoHref, from |-> NoHref]
  ELSE IF u = Null
  THEN [view |-> "redirect", to |-> AdminLoginPath, from |-> location]
  ELSE IF ~u.is_admin /\ ~Includes(u.roles, "admin")
  THEN [view |-> "redirect", to |-> AdminLoginPath, from |-> location]
  ELSE IF requiredRole # NULL /\ ~Includes(u.roles, requiredRole)
  THEN [view |-> "denied", to |-> NoHref, from |-> NoHref]
  ELSE [view |-> "children", to |-> NoHref, from |-> NoHref]

\* A variant of the guard that tests user before isLoading.
AdminProtectedRoute_UserFirst(u, loading, requiredRole, location) ==
  IF u = Null
  THEN [view |-> "redirect", to |-> AdminLoginPath, from |-> location]
  ELSE IF loading
  THEN [view |-> "loading", to |-> NoHref, from |-> NoHref]
  ELSE IF ~u.is_admin
  THEN [view |-> "redirect", to |-> AdminLoginPath, from |-> location]
  ELSE IF requiredRole # NULL /\ ~Includes(u.roles, requiredRole)
  THEN [view |-> "denied", to |-> NoHref, from |-> NoHref]
  ELSE [view |-> "children", to |-> NoHref, from |-> NoHref]

\* A variant of the guard whose non-admin branch redirects like the general
\* guard: to /login, without navigation state.
AdminProtectedRoute_NonAdminToLogin(u, loading, requiredRole, location) ==
  IF loading
  THEN [view |-> "loading", to |-> NoHref, from |-> NoHref]
  ELSE IF u = Null
  THEN [view |-> "redirect", to |-> AdminLoginPath, from |-> location]
  ELSE IF ~u.is_admin
  THEN [view |-> "redirect", to |-> LoginPath, from |-> NoHref]
  ELSE IF requiredRole # NULL /\ ~Includes(u.roles, requiredRole)
  THEN [view |-> "denied", to |-> NoHref, from |-> NoHref]
  ELSE [view |-> "children", to |-> NoHref, from |-> NoHref]

\* A variant of the guard that sends an admin without the required role to
\* /admin/login.
AdminProtectedRoute_MissingRoleRedirects(u, loading, requiredRole, location) ==
  IF loading
  THEN [view |-> "loading", to |-> NoHref, from |-> NoHref]
  ELSE IF u = Null
  THEN [view |-> "redirect", to |-> AdminLoginPath, from |-> location]
  ELSE IF ~u.is_admin
  THEN [view |-> "redirect", to |-> AdminLoginPath, from |-> location]
  ELSE IF requiredRole # NULL /\ ~Includes(u.roles, requiredRole)
  THEN [view |-> "redirect", to |-> AdminLoginPath, from |-> location]
  ELSE [view |-> "children", to |-> NoHref, from |-> NoHref]

\* A variant of the guard whose requiredRole defaults to "admin".
AdminProtectedRoute_DefaultRole(u, loading, requiredRole, location) ==
  LET required == IF requiredRole = NULL THEN "admin" ELSE requiredRole IN
  IF loading
  THEN [view |-> "loading", to |-> NoHref, from |-> NoHref]
  ELSE IF u = Null
  THEN [view |-> "redirect", to |-> AdminLoginPath, from |-> location]
  ELSE IF ~u.is_admin
  THEN [view |-> "redirect", to |-> AdminLoginPath, from |-> location]
  ELSE IF ~Includes(u.roles, required)
  THEN [view |-> "denied", to |-> NoHref, from |-> NoHref]
  ELSE [view |-> "children", to |-> NoHref, from |-> NoHref]

\* What the guard renders for the location it is asked for.
AdminProtectedRoute(u, loading, requiredRole, location) ==
  IF loading
  THEN [view |-> "loading", to |-> NoHref, from |-> NoHref]
  ELSE IF u = Null
  THEN [view |-> "redirect", to |-> AdminLoginPath, from |-> location]
  ELSE IF ~u.is_admin
  THEN [view |-> "redirect", to |-> AdminLoginPath, from |-> location]
  ELSE IF requiredRole # NULL /\ ~Includes(u.roles, requiredRole)
  THEN [view |-> "denied", to |-> NoHref, from |-> NoHref]
  ELSE [view |-> "children", to |-> NoHref, from |-> NoHref]

(***************************************************************************)
(* hooks/useAuth: AuthProvider                                             *)
(***************************************************************************)

isAuthenticated == user # Null

\* A variant of isAdminAuthenticated that goes by the role list.
isAdminAuthenticated_ByRole == user # Null /\ Includes(user.roles, "admin")

isAdminAuthenticated == user # Null /\ user.is_admin

\* A variant of hasRole that grants every role to an administrator.
hasRole_AdminHasAll(role) ==
  IF user = Null THEN FALSE
  ELSE user.is_admin \/ Includes(user.roles, role)

hasRole(role) == IF user = Null THEN FALSE ELSE Includes(user.roles, role)

\* Role names a consumer asks hasRole about; nobody holds "viewer".
RoleArgs == RoleNames \cup {"viewer"}

\* A variant of initializeAuth that calls getCurrentUser without looking at
\* the token.
initializeAuth_AlwaysFetch(skip, token, loading) ==
  IF skip THEN [isLoading |-> loading, sent |-> FALSE, ran |-> FALSE]
  ELSE [isLoading |-> TRUE, sent |-> TRUE, ran |-> TRUE]

\* A variant of initializeAuth with setIsLoading(false) inside the
\* if (token) block.
initializeAuth_LoadingLeftOn(skip, token, loading) ==
  IF skip THEN [isLoading |-> loading, sent |-> FALSE, ran |-> FALSE]
  ELSE IF token # NULL THEN [isLoading |-> TRUE, sent |-> TRUE, ran |-> TRUE]
  ELSE [isLoading |-> TRUE, sent |-> FALSE, ran |-> TRUE]

\* The synchronous part of initializeAuth, run by the effect with the
\* skipInitialization of the render that scheduled it: the isLoading it
\* leaves behind, whether GET /auth/me was sent, and whether it got past the
\* latch test at all.
initializeAuth(skip, token, loading) ==
  IF skip THEN [isLoading |-> loading, sent |-> FALSE, ran |-> FALSE]
  ELSE IF token # NULL THEN [isLoading |-> TRUE, sent |-> TRUE, ran |-> TRUE]
  ELSE [isLoading |-> FALSE, sent |-> FALSE, ran |-> TRUE]

Init ==
  /\ authToken \in Tokens \cup {NULL}
  /\ user = Null
  /\ isLoading = TRUE
  /\ skipInitialization = FALSE
  /\ pathname \in Routes
  /\ href = NoHref
  /\ inflight = [k \in Kinds |-> 0]
  /\ effectPending = TRUE
  /\ last = NoEvent

\* The effect of the first render: useEffect(() => { initializeAuth() }).
MountEffect ==
  /\ effectPending
  /\ LET r == initializeAuth(skipInitialization, authToken, isLoading) IN
       /\ isLoading' = r.isLoading
       /\ inflight' =
            IF r.sent THEN [inflight EXCEPT !["me"] = @ + 1] ELSE inflight
       /\ last' = [NoEvent EXCEPT
            !.op = "initializeAuth", !.ran = r.ran,
            !.kind = IF r.sent THEN "me" ELSE NULL,
            !.header = IF r.sent THEN RequestInterceptor("api", authToken)
                       ELSE NoHeader]
  /\ effectPending' = FALSE
  /\ UNCHANGED <<authToken, user, skipInitialization, pathname, href>>

\* A consumer calls login / register, or a page fetches data: the request
\* passes the request interceptor and goes out.
SendRequest(kind) ==
  /\ ~effectPending
  /\ kind \in CountedKinds
  /\ InFlightCount < MaxInFlight
  /\ inflight' = [inflight EXCEPT ![kind] = @ + 1]
  /\ last' = [NoEvent EXCEPT
       !.op = "request", !.kind = kind,
       !.header = RequestInterceptor(ClientOf(kind), authToken)]
  /\ UNCHANGED <<authToken, user, isLoading, skipInitialization, pathname,
                 href, effectPending>>

\* A variant of login that does not set the latch.
LoginSuccess_NoLatch(response) ==
  /\ inflight["login"] > 0
  /\ inflight' = [inflight EXCEPT !["login"] = @ - 1]
  /\ authToken' = response.access_token
  /\ user' = response.user
  /\ last' = [NoEvent EXCEPT
       !.op = "response", !.kind = "login", !.status = 200,
       !.stored = authToken,
       !.token = response.access_token, !.ruser = response.user]
  /\ UNCHANGED <<isLoading, skipInitialization, pathname, href, effectPending>>

\* login: POST /auth/login resolved.
LoginSuccess(response) ==
  /\ inflight["login"] > 0
  /\ inflight' = [inflight EXCEPT !["login"] = @ - 1]
  /\ authToken' = response.access_token
  /\ user' = response.user
  /\ skipInitialization' = TRUE
  \* the effect re-runs when skipInitialization changed, and returns at once
  /\ isLoading' = initializeAuth(TRUE, response.access_token, isLoading).isLoading
  /\ last' = [NoEvent EXCEPT
       !.op = "response", !.kind = "login", !.status = 200,
       !.stored = authToken,
       !.token = response.access_token, !.ruser = response.user,
       !.ran = initializeAuth(TRUE, response.access_token, isLoading).ran]
  /\ UNCHANGED <<pathname, href, effectPending>>

\* A variant of login whose catch block does not rethrow.
LoginFailure_Swallowed(error) ==
  /\ inflight["login"] > 0
  /\ inflight' = [inflight EXCEPT !["login"] = @ - 1]
  /\ LET i == ResponseError("api", error, authToken, pathname, href) IN
       /\ authToken' = i.authToken
       /\ href' = i.href
  /\ last' = [NoEvent EXCEPT
       !.op = "response", !.kind = "login", !.status = error.status,
       !.stored = authToken]
  /\ UNCHANGED <<user, isLoading, skipInitialization, pathname, effectPending>>

\* login: POST /auth/login rejected; the response interceptor ran first.
LoginFailure(error) ==
  /\ inflight["login"] > 0
  /\ inflight' = [inflight EXCEPT !["login"] = @ - 1]
  /\ LET i == ResponseError("api", error, authToken, pathname, href) IN
       /\ authToken' = i.authToken
       /\ href' = i.href
  /\ last' = [NoEvent EXCEPT
       !.op = "response", !.kind = "login", !.status = error.status,
       !.stored = authToken,
       !.thrown = handleApiError(error)]
  /\ UNCHANGED <<user, isLoading, skipInitialization, pathname, effectPending>>

\* A variant of register that stores response.token_type.
RegisterSuccess_StoresTokenType(response) ==
  /\ inflight["register"] > 0
  /\ inflight' = [inflight EXCEPT !["register"] = @ - 1]
  /\ authToken' = "bearer"
  /\ user' = response.user
  /\ last' = [NoEvent EXCEPT
       !.op = "response", !.kind = "register", !.status = 200,
       !.stored = authToken,
       !.token = response.access_token, !.ruser = response.user]
  /\ UNCHANGED <<isLoading, skipInitialization, pathname, href, effectPending>>

\* register: POST /auth/register resolved.
RegisterSuccess(response) ==
  /\ inflight["register"] > 0
  /\ inflight' = [inflight EXCEPT !["register"] = @ - 1]
  /\ authToken' = response.access_token
  /\ user' = response.user
  /\ last' = [NoEvent EXCEPT
       !.op = "response", !.kind = "register", !.status = 200,
       !.stored = authToken,
       !.token = response.access_token, !.ruser = response.user]
  /\ UNCHANGED <<isLoading, skipInitialization, pathname, href, effectPending>>

\* A variant of register whose catch block removes the token, as the catch
\* block of initializeAuth does.
RegisterFailure_ClearsToken(error) ==
  /\ inflight["register"] > 0
  /\ inflight' = [inflight EXCEPT !["register"] = @ - 1]
  /\ LET i == ResponseError("api", error, authToken, pathname, href) IN
       href' = i.href
  /\ authToken' = NULL
  /\ last' = [NoEvent EXCEPT
       !.op = "response", !.kind = "register", !.status = error.status,
       !.stored = authToken,
       !.thrown = handleApiError(error)]
  /\ UNCHANGED <<user, isLoading, skipInitialization, pathname, effectPending>>

\* register: POST /auth/register rejected.
RegisterFailure(error) ==
  /\ inflight["register"] > 0
  /\ inflight' = [inflight EXCEPT !["register"] = @ - 1]
  /\ LET i == ResponseError("api", error, authToken, pathname, href) IN
       /\ authToken' = i.authToken
       /\ href' = i.href
  /\ last' = [NoEvent EXCEPT
       !.op = "response", !.kind = "register", !.status = error.status,
       !.stored = authToken,
       !.thrown = handleApiError(error)]
  /\ UNCHANGED <<user, isLoading, skipInitialization, pathname, effectPending>>

\* A variant of initializeAuth with setIsLoading(false) inside the catch
\* block only.
InitializeAuthSuccess_StillLoading(userData) ==
  /\ inflight["me"] > 0
  /\ inflight' = [inflight EXCEPT !["me"] = @ - 1]
  /\ user' = userData
  /\ last' = [NoEvent EXCEPT
       !.op = "response", !.kind = "me", !.status = 200, !.stored = authToken,
       !.ruser = userData]
  /\ UNCHANGED <<authToken, isLoading, skipInitialization, pathname, href,
                 effectPending>>

\* initializeAuth after its await: GET /auth/me resolved.
InitializeAuthSuccess(userData) ==
  /\ inflight["me"] > 0
  /\ inflight' = [inflight EXCEPT !["me"] = @ - 1]
  /\ user' = userData
  /\ isLoading' = FALSE
  /\ last' = [NoEvent EXCEPT
       !.op = "response", !.kind = "me", !.status = 200, !.stored = authToken,
       !.ruser = userData]
  /\ UNCHANGED <<authToken, skipInitialization, pathname, href, effectPending>>

\* A variant of initializeAuth whose catch block leaves the token to the
\* response interceptor.
InitializeAuthFailure_TokenKept(error) ==
  /\ inflight["me"] > 0
  /\ inflight' = [inflight EXCEPT !["me"] = @ - 1]
  /\ LET i == ResponseError("api", error, authToken, pathname, href) IN
       /\ href' = i.href
       /\ authToken' = i.authToken
  /\ user' = Null
  /\ isLoading' = FALSE
  /\ last' = [NoEvent EXCEPT
       !.op = "response", !.kind = "me", !.status = error.status,
       !.stored = authToken]
  /\ UNCHANGED <<skipInitialization, pathname, effectPending>>

\* A variant of initializeAuth with setIsLoading(false) at the end of the
\* try block only.
InitializeAuthFailure_StillLoading(error) ==
  /\ inflight["me"] > 0
  /\ inflight' = [inflight EXCEPT !["me"] = @ - 1]
  /\ LET i == ResponseError("api", error, authToken, pathname, href) IN
       href' = i.href
  /\ authToken' = NULL
  /\ user' = Null
  /\ last' = [NoEvent EXCEPT
       !.op = "response", !.kind = "me", !.status = error.status,
       !.stored = authToken]
  /\ UNCHANGED <<isLoading, skipInitialization, pathname, effectPending>>

\* initializeAuth after its await: GET /auth/me rejected; the response
\* interceptor ran first, then the catch block.
InitializeAuthFailure(error) ==
  /\ inflight["me"] > 0
  /\ inflight' = [inflight EXCEPT !["me"] = @ - 1]
  /\ LET i == ResponseError("api", error, authToken, pathname, href) IN
       href' = i.href
  /\ authToken' = NULL
  /\ user' = Null
  /\ isLoading' = FALSE
  /\ last' = [NoEvent EXCEPT
       !.op = "response", !.kind = "me", !.status = error.status,
       !.stored = authToken]
  /\ UNCHANGED <<skipInitialization, pathname, effectPending>>

\* A data call of a page resolved: the interceptor passes it through.
DataSuccess(kind) ==
  /\ kind \in {"data", "adminData"}
  /\ inflight[kind] > 0
  /\ inflight' = [inflight EXCEPT ![kind] = @ - 1]
  /\ last' = [NoEvent EXCEPT
       !.op = "response", !.kind = kind, !.status = 200, !.stored = authToken]
  /\ UNCHANGED <<authToken, user, isLoading, skipInitialization, pathname,
                 href, effectPending>>

\* A variant in which a 401 on a data call also drops the identity.
DataFailure_ClearsUser(kind, error) ==
  /\ kind \in {"data", "adminData"}
  /\ inflight[kind] > 0
  /\ inflight' = [inflight EXCEPT ![kind] = @ - 1]
  /\ LET i == ResponseError(ClientOf(kind), error, authToken, pathname, href) IN
       /\ authToken' = i.authToken
       /\ href' = i.href
  /\ user' = IF error.status = 401 THEN Null ELSE user
  /\ last' = [NoEvent EXCEPT
       !.op = "response", !.kind = kind, !.status = error.status,
       !.stored = authToken, !.thrown = "AxiosError"]
  /\ UNCHANGED <<isLoading, skipInitialization, pathname, effectPending>>

\* A data call of a page rejected: the interceptor re-raises the error.
DataFailure(kind, error) ==
  /\ kind \in {"data", "adminData"}
  /\ inflight[kind] > 0
  /\ inflight' = [inflight EXCEPT ![kind] = @ - 1]
  /\ LET i == ResponseError(ClientOf(kind), error, authToken, pathname, href) IN
       /\ authToken' = i.authToken
       /\ href' = i.href
  /\ last' = [NoEvent EXCEPT
       !.op = "response", !.kind = kind, !.status = error.status,
       !.stored = authToken, !.thrown = "AxiosError"]
  /\ UNCHANGED <<user, isLoading, skipInitialization, pathname, effectPending>>

\* The state of the context together with the Token Store.
AuthState ==
  [authToken |-> authToken, user |-> user, isLoading |-> isLoading,
   skipInitialization |-> skipInitialization]

\* A variant of logout that leaves the latch as it is.
logoutResult_KeepLatch(s) ==
  [authToken |-> NULL, user |-> Null, isLoading |-> s.isLoading,
   skipInitialization |-> s.skipInitialization, sent |-> FALSE]

\* A variant of logout that flips the latch.
logoutResult_FlipLatch(s) ==
  LET r == IF s.skipInitialization
           THEN initializeAuth(FALSE, NULL, s.isLoading)
           ELSE [isLoading |-> s.isLoading, sent |-> FALSE, ran |-> FALSE] IN
    [authToken |-> NULL, user |-> Null, isLoading |-> r.isLoading,
     skipInitialization |-> ~s.skipInitialization, sent |-> r.sent]

\* The effect after a logout in state s: it re-runs when
\* setSkipInitialization(false) changed the dependency, with the latch
\* cleared and the token removed.
logoutEffect(s) ==
  IF s.skipInitialization
  THEN initializeAuth(FALSE, NULL, s.isLoading)
  ELSE [isLoading |-> s.isLoading, sent |-> FALSE, ran |-> FALSE]

\* logout applied to a state s: removeItem, setUser(null),
\* setSkipInitialization(false), and, when that changed skipInitialization,
\* the re-run of the effect (sent: whether it sent GET /auth/me).
logoutResult(s) ==
  LET r == logoutEffect(s) IN
    [authToken |-> NULL, user |-> Null, isLoading |-> r.isLoading,
     skipInitialization |-> FALSE, sent |-> r.sent]

\* A consumer calls logout.
logout ==
  /\ ~effectPending
  /\ LET s == logoutResult(AuthState) IN
       /\ authToken' = s.authToken
       /\ user' = s.user
       /\ skipInitialization' = s.skipInitialization
       /\ isLoading' = s.isLoading
       /\ inflight' =
            IF s.sent THEN [inflight EXCEPT !["me"] = @ + 1] ELSE inflight
  /\ last' = [NoEvent EXCEPT
       !.op = "logout", !.ran = logoutEffect(AuthState).ran]
  /\ UNCHANGED <<pathname, href, effectPending>>

\* A consumer calls hasRole(role).
HasRole(role) ==
  /\ ~effectPending
  /\ role \in RoleArgs
  /\ last' = [NoEvent EXCEPT
       !.op = "hasRole", !.role = role, !.result = hasRole(role)]
  /\ UNCHANGED <<authToken, user, isLoading, skipInitialization, pathname,
                 href, inflight, effectPending>>

\* Client-side navigation (a Link, navigate(...)): no remount.
Navigate(to) ==
  /\ ~effectPending
  /\ to \in Routes
  /\ to # pathname
  /\ pathname' = to
  /\ last' = [NoEvent EXCEPT !.op = "navigate"]
  /\ UNCHANGED <<authToken, user, isLoading, skipInitialization, href,
                 inflight, effectPending>>

\* AdminProtectedRoute, rendered for a location below /admin, returns
\* <Navigate to="/admin/login" state={{ from: location }} replace />.
\* App passes no requiredRole.
AppRequiredRole == NULL

GuardRedirect ==
  /\ ~effectPending
  /\ IsAdminRoute(pathname)
  /\ LET g == AdminProtectedRoute(user, isLoading, AppRequiredRole, pathname) IN
       /\ g.view = "redirect"
       /\ pathname' = g.to
       /\ last' = [NoEvent EXCEPT !.op = "redirect", !.from = g.from]
  /\ UNCHANGED <<authToken, user, isLoading, skipInitialization, href,
                 inflight, effectPending>>

\* A full navigation loads the application anew: the pending
\* window.location.href assignment commits, or the user reloads the page or
\* enters a URL.  React state starts over, localStorage survives, responses
\* to requests of the old page are never delivered.
LoadPage(to) ==
  /\ ~effectPending
  /\ to \in Routes
  /\ href # NoHref => to = href
  /\ pathname' = to
  /\ href' = NoHref
  /\ user' = Null
  /\ isLoading' = TRUE
  /\ skipInitialization' = FALSE
  /\ inflight' = [k \in Kinds |-> 0]
  /\ effectPending' = TRUE
  /\ last' = NoEvent
  /\ UNCHANGED authToken

AuthResponses == [access_token : Tokens, user : Users]

Next ==
  \/ MountEffect
  \/ \E kind \in CountedKinds : SendRequest(kind)
  \/ \E response \in AuthResponses : LoginSuccess(response)
  \/ \E error \in Errors : LoginFailure(error)
  \/ \E response \in AuthResponses : RegisterSuccess(response)
  \/ \E error \in Errors : RegisterFailure(error)
  \/ \E userData \in Users : InitializeAuthSuccess(userData)
  \/ \E error \in Errors : InitializeAuthFailure(error)
  \/ \E kind \in {"data", "adminData"} : DataSuccess(kind)
  \/ \E kind \in {"data", "adminData"}, error \in Errors : DataFailure(kind, error)
  \/ logout
  \/ \E role \in RoleArgs : HasRole(role)
  \/ \E to \in Routes : Navigate(to)
  \/ GuardRedirect
  \/ \E to \in Routes : LoadPage(to)

Spec == Init /\ [][Next]_vars

\* GET /auth/me settles: with a response, an error, or the 30 s timeout of
\* the axios instance.
ResolutionSettles ==
  \/ \E userData \in Users : InitializeAuthSuccess(userData)
  \/ \E error \in Errors : InitializeAuthFailure(error)

\* The effect of a mounted provider runs, and a request that was sent
\* settles.
LiveSpec ==
  /\ Init
  /\ [][Next]_vars
  /\ WF_vars(MountEffect)
  /\ WF_vars(ResolutionSettles)

TypeOK ==
  /\ authToken \in Tokens \cup {NULL}
  /\ user \in Users \cup {Null}
  /\ isLoading \in BOOLEAN
  /\ skipInitialization \in BOOLEAN
  /\ pathname \in Routes
  /\ href \in {NoHref, LoginPath, AdminLoginPath}
  /\ inflight \in [Kinds -> 0..MaxInFlight]
  /\ effectPending \in BOOLEAN


(***************************************************************************)
(* Properties                                                              *)
(***************************************************************************)

\* The last task delivered a response to a call of the given kind.
Responded(kind) == last.op = "response" /\ last.kind = kind

\* C1: an identity with is_admin = false never gets the children of the
\* Admin Guard, whatever its roles and whatever requiredRole is passed.
C1_NonAdminNeverSeesChildren ==
  (user # Null /\ ~user.is_admin) =>
    \A requiredRole \in RequiredRoles :
      AdminProtectedRoute(user, isLoading, requiredRole, pathname).view
        # "children"

\* A resolved session of a non-admin who holds the role "admin", asking for
\* an admin page.
C1_Witness ==
  /\ user # Null
  /\ ~user.is_admin
  /\ Includes(user.roles, "admin")
  /\ ~isLoading
  /\ IsAdminRoute(pathname)

\* C2: while isLoading is true the Admin Guard renders the loading
\* placeholder for every user and requiredRole, and the task that just ran
\* was not a redirect of the guard.
C2_LoadingShowsPlaceholder ==
  isLoading =>
    /\ \A requiredRole \in RequiredRoles :
         AdminProtectedRoute(user, isLoading, requiredRole, pathname).view
           = "loading"
    /\ last.op # "redirect"

\* The startup resolution is in flight for an admin page and no identity is
\* installed.
C2_Witness ==
  /\ isLoading
  /\ inflight["me"] > 0
  /\ user = Null
  /\ IsAdminRoute(pathname)

\* C3 (as claimed): when an identity is installed while GET /auth/me of the
\* startup resolution is in flight (a login or register completed), the
\* completion of that resolution changes neither user nor the Token Store.
C3_ResolutionKeepsFreshLogin ==
  [][(/\ user # Null
      /\ inflight["me"] > 0
      /\ last'.op = "response"
      /\ last'.kind = "me")
     => (user' = user /\ authToken' = authToken)]_vars

\* C4: after the response handler of either client has run for a 401, with
\* a token stored before, the Token Store is empty.
C4_UnauthorizedClearsToken ==
  (last.op = "response" /\ last.status = 401 /\ last.stored # NULL) =>
    authToken = NULL

\* A 401 on an adminApi call arrived on a login page while a token was
\* stored.
C4_Witness ==
  /\ Responded("adminData")
  /\ last.status = 401
  /\ last.stored # NULL
  /\ PathnameIncludesLogin(pathname)
  /\ authToken = NULL

\* C5 (as claimed): in an authenticated admin session a 401 on any call
\* clears the Token Store and sends the browser to /admin/login, and a mount
\* that finds the Token Store empty resolves to no identity.
C5_AdminSessionExpiry ==
  /\ (last.op = "response" /\ last.status = 401 /\ isAdminAuthenticated) =>
       (authToken = NULL /\ href = AdminLoginPath)
  /\ (last.op = "initializeAuth" /\ authToken = NULL) => user = Null

\* C6: after a successful login the Token Store holds the returned
\* access_token, user is the returned identity, the latch is set,
\* isAuthenticated is true and isAdminAuthenticated is the identity's
\* is_admin.
C6_LoginInstallsSession ==
  (Responded("login") /\ last.status = 200) =>
    /\ authToken = last.token
    /\ user = last.ruser
    /\ skipInitialization
    /\ isAuthenticated
    /\ isAdminAuthenticated <=> last.ruser.is_admin

\* A login of an administrator succeeded over a different stored token.
C6_Witness ==
  /\ Responded("login")
  /\ last.status = 200
  /\ last.ruser.is_admin
  /\ last.stored \notin {NULL, last.token}

\* C7 (as claimed): after a successful register the Token Store holds the
\* returned token, user is the returned identity and the latch is set.
C7_RegisterLikeLogin ==
  (Responded("register") /\ last.status = 200) =>
    /\ authToken = last.token
    /\ user = last.ruser
    /\ skipInitialization

\* C8: a failing login or register that arrives in the Unauthenticated state
\* throws an Error to its caller, leaves user absent and the latch as it
\* was, and writes no token (a 401 may remove one).
C8_FailedLoginLeavesUnauthenticated ==
  [][(/\ user = Null
      /\ ~isLoading
      /\ last'.op = "response"
      /\ last'.kind \in {"login", "register"}
      /\ last'.status # 200)
     => (/\ last'.thrown # NULL
         /\ user' = Null
         /\ ~isLoading'
         /\ authToken' \in {authToken, NULL}
         /\ skipInitialization' = skipInitialization)]_vars

\* A login failed with a 4xx that carries the backend's message, and the
\* context is Unauthenticated with nothing stored.
C8_Witness ==
  /\ Responded("login")
  /\ last.status = 400
  /\ last.thrown = "Invalid credentials"
  /\ user = Null
  /\ ~isLoading
  /\ ~skipInitialization
  /\ authToken = NULL

\* C9: logout can be called in every state of the mounted provider, throws
\* nothing, and leaves the Token Store empty, user absent and the latch
\* cleared.
C9_LogoutClearsSession ==
  /\ ~effectPending => ENABLED logout
  /\ last.op = "logout" =>
       /\ authToken = NULL
       /\ user = Null
       /\ ~skipInitialization
       /\ last.thrown = NULL

\* logout ran while a login and the startup resolution were in flight.
C9_Witness ==
  /\ last.op = "logout"
  /\ inflight["me"] > 0
  /\ inflight["login"] > 0

\* C10: the state a logout leaves behind is a fixed point of logout: a
\* second call changes neither the Token Store, user, the latch nor
\* isLoading, and sends nothing.
C10_LogoutIdempotent ==
  last.op = "logout" =>
    logoutResult(AuthState) =
      [authToken |-> authToken, user |-> user, isLoading |-> isLoading,
       skipInitialization |-> skipInitialization, sent |-> FALSE]

\* logout ran after the latch had been set during startup: its effect re-run
\* ended the loading phase while GET /auth/me is still in flight.
C10_Witness ==
  /\ last.op = "logout"
  /\ ~isLoading
  /\ inflight["me"] > 0


\* C11: a mount that finds the Token Store empty sends nothing, leaves user
\* absent and ends the loading phase, so isAuthenticated is false.
C11_EmptyStoreResolvesAtOnce ==
  (last.op = "initializeAuth" /\ authToken = NULL) =>
    /\ last.kind = NULL
    /\ \A k \in Kinds : inflight[k] = 0
    /\ user = Null
    /\ ~isLoading
    /\ ~isAuthenticated

\* The mount effect has run with nothing stored.
C11_Witness ==
  /\ last.op = "initializeAuth"
  /\ authToken = NULL
  /\ ~effectPending

\* C12: when GET /auth/me of the startup resolution succeeds, user is the
\* returned identity, the loading phase is over and the Token Store is as
\* the response found it.
C12_ResolutionInstallsIdentity ==
  (Responded("me") /\ last.status = 200) =>
    /\ user = last.ruser
    /\ ~isLoading
    /\ authToken = last.stored

\* GET /auth/me succeeded for a stored token and returned an administrator.
C12_Witness ==
  /\ Responded("me")
  /\ last.status = 200
  /\ last.stored # NULL
  /\ user # Null
  /\ user.is_admin

\* C13: when GET /auth/me of the startup resolution fails, for whatever
\* reason, the Token Store is empty, user is absent and the loading phase is
\* over.
C13_ResolutionFailureClears ==
  (Responded("me") /\ last.status # 200) =>
    /\ authToken = NULL
    /\ user = Null
    /\ ~isLoading

\* GET /auth/me failed with a 500 while a token was stored.
C13_Witness ==
  /\ Responded("me")
  /\ last.status = 500
  /\ last.stored # NULL
  /\ authToken = NULL


\* C14 (as claimed): within one mount the body of initializeAuth behind the
\* latch test is executed by the mount effect, and by no later task.
C14_ResolverRunsOnceAtMount ==
  last.ran <=> last.op = "initializeAuth"


\* C15: within one mount, once isLoading is false no task sets it to true
\* again (a full page load starts a new mount).
C15_LoadingOnlyAtStartup ==
  [][(~isLoading /\ ~effectPending') => ~isLoading']_vars

\* A logout re-ran the body of initializeAuth after the loading phase, and
\* isLoading is false.
C15_Witness ==
  /\ last.op = "logout"
  /\ last.ran
  /\ ~isLoading
  /\ inflight["me"] = 0

\* C16 (as claimed): isLoading is false only when the startup resolution
\* has run to completion, that is, when no GET /auth/me is in flight.
C16_LoadingEndsAfterResolution ==
  (~effectPending /\ ~isLoading) => inflight["me"] = 0


\* C17: a call hasRole(r) returns true exactly when a user is present and r
\* is one of the entries of user.roles, and it changes neither the Token
\* Store, user, isLoading nor the latch.
C17_HasRoleIsPureMembership ==
  [][last'.op = "hasRole" =>
       /\ last'.result =
            (user # Null /\ last'.role \in {user.roles[i] : i \in DOMAIN user.roles})
       /\ UNCHANGED <<authToken, user, isLoading, skipInitialization>>]_vars

\* hasRole answered true for a non-admin who holds the role.
C17_Witness ==
  /\ last.op = "hasRole"
  /\ last.result
  /\ user # Null
  /\ ~user.is_admin
  /\ last.role = "super_admin"


\* C18: in every reachable state isAuthenticated says that user is an
\* identity, isAdminAuthenticated says that user is an identity whose
\* is_admin is set, and so isAdminAuthenticated implies isAuthenticated.
C18_DerivedPredicates ==
  /\ isAuthenticated <=> user \in Users
  /\ isAdminAuthenticated <=> (user \in Users /\ user.is_admin)
  /\ isAdminAuthenticated => isAuthenticated

\* A register installed a non-admin who holds the role "admin":
\* authenticated, not admin-authenticated.
C18_Witness ==
  /\ Responded("register")
  /\ last.status = 200
  /\ isAuthenticated
  /\ ~isAdminAuthenticated
  /\ Includes(user.roles, "admin")

\* C19: once loading has resolved, for an admin location the guard returns
\* the redirect to /admin/login with that location as 'from', both without
\* an identity and with one whose is_admin is false; a redirect that has
\* taken place led to /admin/login and carries the admin location it came
\* from.
C19_GuardRedirectsToAdminLogin ==
  /\ (~isLoading /\ IsAdminRoute(pathname) /\ (user = Null \/ ~user.is_admin))
       => \A requiredRole \in RequiredRoles :
            AdminProtectedRoute(user, isLoading, requiredRole, pathname) =
              [view |-> "redirect", to |-> AdminLoginPath, from |-> pathname]
  /\ last.op = "redirect" =>
       /\ pathname = AdminLoginPath
       /\ IsAdminRoute(last.from)
       /\ ~isLoading
       /\ user = Null \/ ~user.is_admin

\* The guard has redirected an identity that is present but not an admin.
C19_Witness ==
  /\ last.op = "redirect"
  /\ last.from = AdminPagePath
  /\ user # Null
  /\ ~user.is_admin

\* C20: once loading has resolved, the guard as App uses it (no requiredRole)
\* renders its children for every identity with is_admin = true.
C20_AdminSeesChildren ==
  (~isLoading /\ user # Null /\ user.is_admin) =>
    AdminProtectedRoute(user, isLoading, AppRequiredRole, pathname).view
      = "children"

\* A resolved session of an administrator without any role, on an admin
\* page.
C20_Witness ==
  /\ ~isLoading
  /\ user # Null
  /\ user.is_admin
  /\ user.roles = <<>>
  /\ IsAdminRoute(pathname)


\* C21: once loading has resolved, for an identity with is_admin = true and
\* a required role that its roles do not contain, the Admin Guard returns
\* the access-denied view: no redirect target, no navigation state, no
\* children.
C21_MissingRoleIsDeniedInPlace ==
  (~isLoading /\ user # Null /\ user.is_admin) =>
    \A requiredRole \in RoleNames :
      ~(requiredRole \in {user.roles[i] : i \in DOMAIN user.roles}) =>
        AdminProtectedRoute(user, isLoading, requiredRole, pathname) =
          [view |-> "denied", to |-> NoHref, from |-> NoHref]

\* A resolved session of an administrator with the role "admin" only, on an
\* admin page: "super_admin" is missing.
C21_Witness ==
  /\ ~isLoading
  /\ user # Null
  /\ user.is_admin
  /\ user.roles = <<"admin">>
  /\ IsAdminRoute(pathname)

\* The login routes of the route table.
LoginRoutes == {LoginPath, AdminLoginPath}

\* C22: on a response with status 401, a navigation is started only when the
\* location is not a login route, its target is /login for a call through
\* api and /admin/login for a call through adminApi, and on a login route
\* the pending navigation is left as it was.  For the locations of the route
\* table the navigation is started whenever the location is not a login
\* route.
C22_UnauthorizedNavigation ==
  [][(last'.op = "response" /\ last'.status = 401) =>
       LET target == IF ClientOf(last'.kind) = "adminApi" THEN AdminLoginPath
                     ELSE LoginPath IN
         /\ pathname' = pathname
         /\ href' # href => (pathname \notin LoginRoutes /\ href' = target)
         /\ pathname \in LoginRoutes => href' = href
         /\ pathname \notin LoginRoutes => href' = target]_vars

\* A 401 arrived for a call through api while the browser was on
\* /admin/login with a token stored: no navigation is pending.
C22_Witness ==
  /\ Responded("data")
  /\ last.status = 401
  /\ last.stored # NULL
  /\ pathname = AdminLoginPath
  /\ href = NoHref

\* C23: a request that goes out carries the header Bearer <token> when the
\* Token Store holds a token and no Authorization header when it does not;
\* it goes out in both cases, and the Token Store is not written.
C23_RequestPhaseAttachesToken ==
  [][(last'.op = "request" \/ (last'.op = "initializeAuth" /\ last'.kind = "me"))
       =>
       /\ authToken # NULL => last'.header = <<"Bearer", authToken>>
       /\ authToken = NULL => last'.header = <<>>
       /\ inflight'[last'.kind] = inflight[last'.kind] + 1
       /\ authToken' = authToken]_vars

\* A call through api went out without a token: no header.
C23_Witness ==
  /\ last.op = "request"
  /\ last.kind = "data"
  /\ authToken = NULL
  /\ last.header = NoHeader
  /\ inflight["data"] > 0

\* C24: a successful response reaches the caller as it came (login and
\* register install exactly its token and identity, nothing is thrown, the
\* location is untouched, a data call leaves the Token Store alone); every
\* error reaches the caller (login, register and data calls throw, the catch
\* block of initializeAuth sets user to null); an error whose status is not
\* 401 leaves the location alone and, as far as the interceptor goes (every
\* call but GET /auth/me, whose caller removes the token itself), the Token
\* Store too.
C24_ResponsePhasePassesThrough ==
  [][last'.op = "response" =>
       /\ pathname' = pathname
       /\ last'.status = 200 =>
            /\ href' = href
            /\ last'.thrown = NULL
            /\ last'.kind \in {"data", "adminData"} => authToken' = authToken
            /\ last'.kind \in {"login", "register"} =>
                 authToken' = last'.token /\ user' = last'.ruser
       /\ (last'.status # 200 /\ last'.kind # "me") => last'.thrown # NULL
       /\ (last'.status # 200 /\ last'.kind = "me") => user' = Null
       /\ last'.status \notin {200, 401} =>
            /\ href' = href
            /\ last'.kind # "me" => authToken' = authToken]_vars

\* A call through adminApi failed with status 500: the caller got the
\* error, the token is still stored and no navigation is pending.
C24_Witness ==
  /\ Responded("adminData")
  /\ last.status = 500
  /\ last.thrown # NULL
  /\ last.stored # NULL
  /\ authToken = last.stored
  /\ href = NoHref

\* C25: a 401 on a call whose caller does not touch the context (every call
\* but GET /auth/me) leaves user, isLoading and skipInitialization as they
\* were.
C25_UnauthorizedKeepsContext ==
  [][(last'.op = "response" /\ last'.status = 401 /\ last'.kind # "me") =>
       UNCHANGED <<user, isLoading, skipInitialization>>]_vars

\* A 401 through adminApi in a session installed by login: the token is
\* gone, the identity and the latch are still there.
C25_Witness ==
  /\ Responded("adminData")
  /\ last.status = 401
  /\ authToken = NULL
  /\ user # Null
  /\ skipInitialization


\* C26 (as claimed): the Token Store goes from holding a token to empty only
\* in a logout or in the handling of a response with status 401.
C26_TokenDestroyedOnlyByLogoutOr401 ==
  [][(authToken # NULL /\ authToken' = NULL) =>
       \/ last'.op = "logout"
       \/ last'.op = "response" /\ last'.status = 401]_vars

\* C26 (amended): the Token Store goes from holding a token to empty only in
\* a logout, in the handling of a response with status 401, or when GET
\* /auth/me of the startup resolution fails, whatever the failure.
C26_TokenDestroyedByLogout401OrFailedResolution ==
  [][(authToken # NULL /\ authToken' = NULL) =>
       \/ last'.op = "logout"
       \/ last'.op = "response" /\ last'.status = 401
       \/ last'.op = "response" /\ last'.kind = "me" /\ last'.status # 200]_vars

\* GET /auth/me got no response (connection failure or timeout) and the
\* stored token is gone.
C26_Witness ==
  /\ Responded("me")
  /\ last.status = 0
  /\ last.stored # NULL
  /\ authToken = NULL

\* C27: the Token Store goes from empty to holding a token only when login
\* or register resolved, and then holds the access_token of that response.
C27_TokenCreatedOnlyByLoginOrRegister ==
  [][(authToken = NULL /\ authToken' # NULL) =>
       /\ last'.op = "response"
       /\ last'.kind \in {"login", "register"}
       /\ last'.status = 200
       /\ authToken' = last'.token]_vars

\* register resolved with token T2 while the Token Store was empty.
C27_Witness ==
  /\ Responded("register")
  /\ last.status = 200
  /\ last.stored = NULL
  /\ last.token = "T2"
  /\ authToken = "T2"

\* C28 (as claimed): whenever an identity is installed the Token Store holds
\* a token.
C28_IdentityImpliesToken == isAuthenticated => authToken # NULL

\* C29 (as claimed), for the first event after a logout: it installs an
\* identity only if it is the success of a login or a register.
C29_NoIdentityAfterLogout ==
  [][(last.op = "logout" /\ user' # Null) =>
       /\ last'.op = "response"
       /\ last'.kind \in {"login", "register"}
       /\ last'.status = 200]_vars


\* C30: no mount stays loading for ever.  The effect of every mount runs,
\* and after it has run there is always a later moment at which isLoading
\* is false or the page has been loaded anew (which ends that mount).
C30_LoadingEnds ==
  /\ []<>(~isLoading \/ effectPending)
  /\ []<>(~effectPending)

\* The startup resolution failed after a login had set the latch, and
\* loading is over.
C30_Witness ==
  /\ Responded("me")
  /\ last.status # 200
  /\ skipInitialization
  /\ ~isLoading

====
